---- MODULE Spec2Model ----
(***************************************************************************)
(* Past Forward (4xachi/PF): the generation scheduler of src/App.tsx.      *)
(*                                                                         *)
(* The App component's state (uploadedImage, generatedImages, appState),   *)
(* the FileReader started by handleFileChange, the rounds started by       *)
(* handleGenerateClick (each with its own decadesQueue and its             *)
(* concurrencyLimit workers), and the generateDecadeImage calls that are   *)
(* awaiting the remote service.                                            *)
(*                                                                         *)
(* JavaScript runs one task at a time: an action is one event handler or   *)
(* one promise continuation, run up to its next await on the remote        *)
(* service.  The continuation of a settled call publishes the result and   *)
(* then the worker's while loop draws the next decade; the microtasks in   *)
(* between touch nothing another task reads, so they are one action.       *)
(*                                                                         *)
(* With it: one createAlbumPage invocation of src/lib/albumUtils.ts, as    *)
(* the sequence of calls it makes on its 2D context, and the album export  *)
(* of src/App.tsx (handleDownloadAlbum, handleShareAlbum), in which a      *)
(* createAlbumPage call is the mapping passed and the way its promise      *)
(* settles.                                                                *)
(***************************************************************************)
EXTENDS Integers, Sequences, FiniteSets, Bags, TLC

\* ---------------------------------------------------------------- bounds
NumDecades == 3
MaxRegens  == 1

\* ------------------------------------------------------------- constants
ALL_DECADES == <<"1950s", "1960s", "1970s", "1980s", "1990s", "2000s">>

\* const DECADES = [...]; the model runs on its first NumDecades labels
DECADES == SubSeq(ALL_DECADES, 1, NumDecades)

concurrencyLimit == 2

\* The files the user drops or picks in the session, in this order, each once.
\* Two files are enough for a second FileReader to finish while the first
\* file's round is running, and for a second round.
Files == <<"fileA", "fileB">>

Undefined == "undefined"
Null      == "null"

Range(s) == {s[i] : i \in 1..Len(s)}

\* the ways a generateDecadeImage promise settles: it resolves with a url or
\* rejects with an Error carrying a message
Outcomes == {"resolve", "rejectError"}

\* ------------------------------------------------- GeneratedImage values
PendingImage == [status |-> "pending", url |-> Undefined, error |-> Undefined]

DoneImage(url) == [status |-> "done", url |-> url, error |-> Undefined]

ErrorImage(message) == [status |-> "error", url |-> Undefined, error |-> message]

\* err instanceof Error ? err.message : "An unknown error occurred."
errorMessage(outcome) ==
    IF outcome = "rejectError" THEN "err.message" ELSE "An unknown error occurred."

\* the url the service returns for a call
resultUrl(call) == <<"url", call.decade, call.by>>

\* --------------------------------- Record<string, GeneratedImage> values
\* A JavaScript object keeps its string keys in insertion order: a record is
\* the sequence of its [key, value] entries.
HasKey(images, decade) == \E i \in 1..Len(images) : images[i].key = decade

\* images[decade]
Lookup(images, decade) ==
    IF HasKey(images, decade)
    THEN images[CHOOSE i \in 1..Len(images) : images[i].key = decade].value
    ELSE Undefined

\* images[decade]?.status
StatusOf(images, decade) ==
    IF HasKey(images, decade) THEN Lookup(images, decade).status ELSE Undefined

\* mutant of SpreadPut: { [decade]: image }, the previous entries dropped
putAlone(prev, decade, image) == <<[key |-> decade, value |-> image]>>

\* { ...prev, [decade]: image }
SpreadPut(prev, decade, image) ==
    IF HasKey(prev, decade)
    THEN [i \in 1..Len(prev) |->
            IF prev[i].key = decade THEN [key |-> decade, value |-> image] ELSE prev[i]]
    ELSE Append(prev, [key |-> decade, value |-> image])

Keys(images) == [i \in 1..Len(images) |-> images[i].key]

\* DECADES.forEach(decade => { initialImages[decade] = { status: 'pending' } })
RECURSIVE initialImagesFrom(_, _)
initialImagesFrom(acc, rest) ==
    IF rest = <<>> THEN acc
    ELSE initialImagesFrom(SpreadPut(acc, Head(rest), PendingImage), Tail(rest))

initialImages == initialImagesFrom(<<>>, DECADES)

\* ----------------------------------------------------------------- state
VARIABLES
    uploadedImage,    \* useState<string | null>: Null or the uploaded photo
    generatedImages,  \* useState<Record<string, GeneratedImage>>
    appState,         \* 'idle' | 'image-uploaded' | 'generating' | 'results-shown'
    reading,          \* the files whose FileReader has not finished yet
    rounds,           \* one record per handleGenerateClick invocation
    calls,            \* bag of the generateDecadeImage calls not yet settled
    regens,           \* handleRegenerateDecade invocations that passed the guard
    uploads           \* handleFileChange invocations (files dropped so far)

\* one createAlbumPage invocation (src/lib/albumUtils.ts)
VARIABLES
    albumPc,          \* where the invocation stands: "idle" (not called),
                      \* "fonts150", "fonts80", "loading", "resolved", "rejected"
    imageData,        \* its argument: Record<string, string> in key order
    fontLoads,        \* the document.fonts.load requests made so far
    loads,            \* per input entry: the state of its loadImage promise
    surface,          \* the calls made on the 2D context, in order
    albumResult       \* the state of the promise it returned

albumVars == <<albumPc, imageData, fontLoads, loads, surface, albumResult>>

\* the album export of the App component (handleDownloadAlbum, handleShareAlbum)
VARIABLES
    isDownloading,    \* useState(false)
    isSharing,        \* useState(false)
    downloadPc,       \* where the handleDownloadAlbum invocation stands: "idle"
                      \* (none running), "createAlbumPage", "generateAsync"
    downloadData,     \* the imageData it passed to the createAlbumPage it awaits
    sharePc,          \* where the handleShareAlbum invocation stands: "idle",
                      \* "createAlbumPage", "dataUrlToFile", "share"
    shareData,        \* the imageData it passed to the createAlbumPage it awaits
    ended             \* history: the handler that ended last and by which path

exportVars == <<isDownloading, isSharing, downloadPc, downloadData, sharePc, shareData, ended>>

vars == <<uploadedImage, generatedImages, appState, reading, rounds, calls,
          regens, uploads, albumVars, exportVars>>

\* mutant of workerIds: one worker per label
workerPerLabel == 1..Len(DECADES)

workerIds == 1..concurrencyLimit

Labels == Range(ALL_DECADES)

\* a call made by worker w of round r, and a call made by handleRegenerateDecade
WorkerCall(r, w, decade) ==
    [by |-> "worker", round |-> r, worker |-> w, decade |-> decade, stale |-> FALSE]

RegenerateCall(decade) ==
    [by |-> "regenerate", round |-> 0, worker |-> 0, decade |-> decade, stale |-> FALSE]

\* History: a session clear (handleReset, onloadend) leaves the unsettled
\* calls running; they are marked as started before the clear
abandoned(cs) ==
    LET old == BagToSet(cs)
        mark(c) == [c EXCEPT !.stale = TRUE]
    IN [m \in {mark(c) : c \in old} |->
          (IF m \in old THEN cs[m] ELSE 0)
          + (IF [m EXCEPT !.stale = FALSE] \in old THEN cs[[m EXCEPT !.stale = FALSE]] ELSE 0)]

\* mutant of decadesQueue: [...DECADES].reverse()
decadesQueueReversed == [i \in 1..Len(DECADES) |-> DECADES[Len(DECADES) + 1 - i]]

\* const decadesQueue = [...DECADES]
decadesQueue == DECADES

\* mutant of shift: the head is read (decadesQueue[0]) and not removed
shiftKeepsHead(queue) == queue

\* decadesQueue.shift(): the queue it leaves
shift(queue) == Tail(queue)

\* mutant of runWorker: processDecade is not awaited, so the worker calls
\* generate for the whole queue at once and finishes
RECURSIVE runWorkerNoAwait(_, _, _, _)
runWorkerNoAwait(rd, cs, r, w) ==
    IF Len(rd.queue) > 0
    THEN LET decade == Head(rd.queue) IN
         runWorkerNoAwait([rd EXCEPT !.queue = Tail(rd.queue), !.issued[decade] = @ + 1],
                          cs (+) SetToBag({WorkerCall(r, w, decade)}), r, w)
    ELSE [round |-> [rd EXCEPT !.pc[w] = "finished"], calls |-> cs]

\* mutant of runWorker: an if in place of the while, so the worker draws one
\* label and finishes
runWorkerOnce(rd, cs, r, w) ==
    IF Len(rd.queue) > 0 /\ rd.pc[w] = "start"
    THEN LET decade == Head(rd.queue) IN
         [round |-> [rd EXCEPT !.queue  = Tail(rd.queue),
                               !.pc[w]  = "await",
                               !.issued[decade] = @ + 1],
          calls |-> cs (+) SetToBag({WorkerCall(r, w, decade)})]
    ELSE [round |-> [rd EXCEPT !.pc[w] = "finished"], calls |-> cs]

\* One worker of round r, from the top of its while loop to its next await:
\*   while (decadesQueue.length > 0) {
\*       const decade = decadesQueue.shift();
\*       if (decade) { await processDecade(decade); } }
\* processDecade calls generateDecadeImage at once and awaits it.  rd is the
\* round's record, cs the bag of unsettled calls.
runWorker(rd, cs, r, w) ==
    IF Len(rd.queue) > 0
    THEN LET decade == Head(rd.queue) IN
         [round |-> [rd EXCEPT !.queue  = shift(rd.queue),
                               !.pc[w]  = "await",
                               !.issued[decade] = @ + 1],
          calls |-> cs (+) SetToBag({WorkerCall(r, w, decade)})]
    ELSE [round |-> [rd EXCEPT !.pc[w] = "finished"], calls |-> cs]

\* Array(concurrencyLimit).fill(null).map(async () => {...}): the workers
\* start one after the other, each running to its first await
RECURSIVE startWorkers(_, _, _, _)
startWorkers(rd, cs, r, w) ==
    IF w > concurrencyLimit THEN [round |-> rd, calls |-> cs]
    ELSE LET st == runWorker(rd, cs, r, w) IN startWorkers(st.round, st.calls, r, w + 1)

\* mutant of allWorkersFinished: Promise.race, the first worker to finish
anyWorkerFinished(rd) == \E w \in DOMAIN rd.pc : rd.pc[w] = "finished"

\* Promise.all(workers) has every worker fulfilled
allWorkersFinished(rd) == \A w \in DOMAIN rd.pc : rd.pc[w] = "finished"

\* mutant of processDecade: no try/catch, a rejection escapes unrecorded
processDecadeNoCatch(prev, call, outcome) ==
    IF outcome = "resolve"
    THEN [images |-> SpreadPut(prev, call.decade, DoneImage(resultUrl(call))), threw |-> FALSE]
    ELSE [images |-> prev, threw |-> TRUE]

\* mutant of processDecade: the catch branch records the error and rethrows
processDecadeRethrows(prev, call, outcome) ==
    IF outcome = "resolve"
    THEN [images |-> SpreadPut(prev, call.decade, DoneImage(resultUrl(call))), threw |-> FALSE]
    ELSE [images |-> SpreadPut(prev, call.decade, ErrorImage(errorMessage(outcome))),
          threw  |-> TRUE]

\* processDecade after its generateDecadeImage call settled: the try branch
\* publishes done, the catch branch publishes error; nothing is rethrown
processDecade(prev, call, outcome) ==
    IF outcome = "resolve"
    THEN [images |-> SpreadPut(prev, call.decade, DoneImage(resultUrl(call))), threw |-> FALSE]
    ELSE [images |-> SpreadPut(prev, call.decade, ErrorImage(errorMessage(outcome))),
          threw  |-> FALSE]

\* mutant of regenerateReturnsEarly: the pending check is missing
regenerateChecksImageOnly(image, images, decade) == image = Null

\* the guard of handleRegenerateDecade:
\*   if (!uploadedImage || generatedImages[decade]?.status === 'pending') return;
regenerateReturnsEarly(image, images, decade) ==
    image = Null \/ StatusOf(images, decade) = "pending"

\* mutant of regenerateResult: no catch, a rejection leaves the map as it is
regenerateResultNoCatch(prev, call, outcome) ==
    IF outcome = "resolve"
    THEN SpreadPut(prev, call.decade, DoneImage(resultUrl(call)))
    ELSE prev

\* the catch-less result of a regeneration call, as processDecade
regenerateResult(prev, call, outcome) ==
    IF outcome = "resolve"
    THEN SpreadPut(prev, call.decade, DoneImage(resultUrl(call)))
    ELSE SpreadPut(prev, call.decade, ErrorImage(errorMessage(outcome)))

\* ------------------------------------------- createAlbumPage: its values
\* bounds of the image sources handed to createAlbumPage: the number of
\* characters of a short one and of a long one
ShortLen == 3
LongLen  == 52

\* a string is the sequence of its characters; a source of n characters that
\* starts with tag
Src(tag, n) == <<tag>> \o [i \in 1..(n - 1) |-> "x"]

Sources == {Src("s", ShortLen), Src("l", LongLen)}

\* every Record<string, string> over the labels of DECADES, in every key order
AlbumInputs ==
    UNION {{m \in [1..k -> [key : Range(DECADES), value : Sources]] :
               \A i, j \in 1..k : m[i].key = m[j].key => i = j} : k \in 0..NumDecades}

\* the ways document.fonts.load, an image load and getContext('2d') turn out
FontOutcomes == {"loaded", "failed"}

LoadOutcomes == {"loaded", "failed"}

Contexts == {"2d", Null}

\* mutant of contextMissing: the check of ctx is missing
contextNeverMissing(ctx) == FALSE

\* if (!ctx)
contextMissing(ctx) == ctx = Null

\* src.substring(0, 50)
substringEnd == 50

substring(src) == SubSeq(src, 1, IF Len(src) < substringEnd THEN Len(src) ELSE substringEnd)

\* mutant of loadImageError: the message carries the whole source
loadImageErrorWhole(src) == <<"Failed to load image: ">> \o src \o <<"...">>

\* new Error(`Failed to load image: ${src.substring(0, 50)}...`)
loadImageError(src) == <<"Failed to load image: ">> \o substring(src) \o <<"...">>

contextError == <<"Could not get 2D canvas context">>

\* what a rejected document.fonts.load promise carries
fontError == <<"font load failed">>

\* the HTMLImageElement loadImage resolves with
Img(src) == <<"img", src>>

\* the promise createAlbumPage returns: pending, rejected or resolved
NotSettled == [status |-> "pending", value |-> <<>>]

Rejected(error) == [status |-> "rejected", value |-> error]

Resolved(value) == [status |-> "resolved", value |-> value]

\* one call on the 2D context
Op(name, args) == [op |-> name, args |-> args]

\* ---------------------------------------- createAlbumPage: its geometry
\* Lengths are in units of 1/Unit pixel, so that every length of the layout
\* is an integer (cellHeight is 2708/3 px, the polaroid lengths are tenths).
Unit == 30

canvasWidth == 2480

canvasHeight == 3508

grid == [cols |-> 2, rows |-> 3, padding |-> 100]

contentTopMargin == 400

contentHeight == canvasHeight - contentTopMargin

cellWidth == (Unit * (canvasWidth - grid.padding * (grid.cols + 1))) \div grid.cols

cellHeight == (Unit * (contentHeight - grid.padding * (grid.rows + 1))) \div grid.rows

\* mutant of gridRow: row and column swapped
gridRowAsCol(index) == index % grid.cols

\* Math.floor(index / grid.cols) and index % grid.cols
gridRow(index) == index \div grid.cols

gridCol(index) == index % grid.cols

cellX(col) == Unit * grid.padding + col * (cellWidth + Unit * grid.padding)

cellY(row) == Unit * (contentTopMargin + grid.padding) + row * (cellHeight + Unit * grid.padding)

polaroidWidth == (cellWidth * 8) \div 10

polaroidHeight == (polaroidWidth * 12) \div 10

imageMargin == (polaroidWidth * 5) \div 100

imageWidth == polaroidWidth - imageMargin * 2

imageHeight == imageWidth

imageX == (0 - imageWidth) \div 2

imageY == (0 - polaroidHeight) \div 2 + imageMargin

captionY ==
    imageY + imageHeight + (polaroidHeight \div 2 - imageMargin - imageHeight) \div 2 + Unit * 30

\* (Math.random() - 0.5) * 0.07, in thousandths of a radian: Math.random()
\* is in [0, 1), so the rotation is in [-35, 35); its two extremes
Rotations == {-35, 34}

\* ctx.fillStyle = '#F8FAFC'; ctx.fillRect(0, 0, canvasWidth, canvasHeight)
drawBackground == <<Op("fillRect", <<"#F8FAFC", 0, 0, Unit * canvasWidth, Unit * canvasHeight>>)>>

\* ctx.font = `600 150px 'Poppins', sans-serif`; ctx.fillText('Past Forward', ...)
drawTitle == <<Op("fillText", <<"Past Forward", (Unit * canvasWidth) \div 2, Unit * 250>>)>>

\* mutant of drawCell: ctx.restore() is missing
drawCellNoRestore(decade, img, index, rotation) ==
    << Op("save", <<>>),
       Op("translate", <<cellX(gridCol(index)) + cellWidth \div 2,
                         cellY(gridRow(index)) + cellHeight \div 2>>),
       Op("rotate", <<rotation>>),
       Op("fillRect", <<"#FFFFFF", (0 - polaroidWidth) \div 2, (0 - polaroidHeight) \div 2,
                        polaroidWidth, polaroidHeight>>),
       Op("drawImage", <<img, imageX, imageY, imageWidth, imageHeight>>),
       Op("fillText", <<decade, 0, captionY>>) >>

\* the body of imagesWithDecades.forEach for the entry at index (from 0)
drawCell(decade, img, index, rotation) ==
    LET row == gridRow(index)
        col == gridCol(index)
    IN << Op("save", <<>>),
          Op("translate", <<cellX(col) + cellWidth \div 2, cellY(row) + cellHeight \div 2>>),
          Op("rotate", <<rotation>>),
          Op("fillRect", <<"#FFFFFF", (0 - polaroidWidth) \div 2, (0 - polaroidHeight) \div 2,
                           polaroidWidth, polaroidHeight>>),
          Op("drawImage", <<img, imageX, imageY, imageWidth, imageHeight>>),
          Op("fillText", <<decade, 0, captionY>>),
          Op("restore", <<>>) >>

\* imagesWithDecades.forEach(...) from the entry at index on; rotation[i] is
\* the value Math.random gives for the entry at index i - 1
RECURSIVE drawCells(_, _, _)
drawCells(data, index, rotation) ==
    IF index >= Len(data) THEN <<>>
    ELSE drawCell(data[index + 1].key, Img(data[index + 1].value), index, rotation[index + 1])
         \o drawCells(data, index + 1, rotation)

\* canvas.toDataURL('image/jpeg', 0.92): the encoding of what was drawn
toDataURL(ops) ==
    [type |-> "image/jpeg", quality |-> 92, width |-> canvasWidth,
     height |-> canvasHeight, content |-> ops]

\* mutant of allLoaded: an empty list of loads never counts as loaded
allLoadedSome(ls) == Len(ls) > 0 /\ \A i \in 1..Len(ls) : ls[i] = "loaded"

\* mutant of allLoaded: Promise.any, the first load to complete
someLoaded(ls) == \E i \in 1..Len(ls) : ls[i] = "loaded"

\* Promise.all(loads) is fulfilled
allLoaded(ls) == \A i \in 1..Len(ls) : ls[i] = "loaded"

albumNotCalled ==
    /\ albumPc = "idle"
    /\ imageData = <<>>
    /\ fontLoads = <<>>
    /\ loads = <<>>
    /\ surface = <<>>
    /\ albumResult = NotSettled

\* no handleDownloadAlbum and no handleShareAlbum invocation has run
exportNotRunning ==
    /\ isDownloading = FALSE
    /\ isSharing = FALSE
    /\ downloadPc = "idle"
    /\ downloadData = <<>>
    /\ sharePc = "idle"
    /\ shareData = <<>>
    /\ ended = [handler |-> "none", path |-> "none"]

\* ------------------------------------------------------------------ Init
Init ==
    /\ uploadedImage = Null
    /\ generatedImages = <<>>
    /\ appState = "idle"
    /\ reading = {}
    /\ rounds = <<>>
    /\ calls = EmptyBag
    /\ regens = 0
    /\ uploads = 0
    /\ albumNotCalled
    /\ exportNotRunning

\* --------------------------------------------------------------- actions
\* handleFileChange (from handleImageUpload or handleDrop; the drop zone and
\* the file input are rendered in 'idle' only): starts a FileReader
handleFileChange ==
    /\ appState = "idle"
    /\ uploads < Len(Files)
    /\ reading' = reading \cup {Files[uploads + 1]}
    /\ uploads' = uploads + 1
    /\ UNCHANGED <<uploadedImage, generatedImages, appState, rounds, calls, regens, albumVars, exportVars>>

\* reader.onloadend of the reader of file, the read having succeeded:
\* reader.result is the file's data URL
onloadend(file) ==
    /\ file \in reading
    /\ reading' = reading \ {file}
    /\ uploadedImage' = file
    /\ appState' = "image-uploaded"
    /\ generatedImages' = <<>>
    /\ calls' = abandoned(calls)
    /\ UNCHANGED <<rounds, regens, uploads, albumVars, exportVars>>

\* handleGenerateClick up to await Promise.all(workers); the button is
\* rendered when appState === 'image-uploaded' && uploadedImage
handleGenerateClick ==
    /\ appState = "image-uploaded"
    /\ uploadedImage # Null
    /\ LET r  == Len(rounds) + 1
           rd == [queue     |-> decadesQueue,
                  pc        |-> [w \in workerIds |-> "start"],
                  outcome   |-> "running",
                  issued    |-> [d \in Labels |-> 0],
                  published |-> {}]
           st == startWorkers(rd, calls, r, 1)
       IN /\ appState' = "generating"
          /\ generatedImages' = initialImages
          /\ rounds' = Append(rounds, st.round)
          /\ calls' = st.calls
    /\ UNCHANGED <<uploadedImage, reading, regens, uploads, albumVars, exportVars>>

\* The generateDecadeImage call of worker call.worker of round call.round
\* settles: processDecade publishes the outcome, the worker loops, and when
\* the last worker has finished Promise.all resolves and handleGenerateClick
\* sets 'results-shown'.  A processDecade that threw would reject its worker
\* and with it Promise.all, and handleGenerateClick would set nothing.
processDecadeSettled(call, outcome) ==
    /\ BagIn(call, calls)
    /\ call.by = "worker"
    /\ LET r    == call.round
           w    == call.worker
           res  == processDecade(generatedImages, call, outcome)
           cs   == calls (-) SetToBag({call})
           rd   == [rounds[r] EXCEPT !.published = @ \cup {call.decade}]
           st   == IF res.threw
                   THEN [round |-> [rd EXCEPT !.pc[w] = "rejected",
                                              !.outcome = IF @ = "running" THEN "rejected" ELSE @],
                         calls |-> cs]
                   ELSE runWorker(rd, cs, r, w)
           ends == st.round.outcome = "running" /\ allWorkersFinished(st.round)
       IN /\ generatedImages' = res.images
          /\ calls' = st.calls
          /\ rounds' = [rounds EXCEPT ![r] =
                           IF ends THEN [st.round EXCEPT !.outcome = "fulfilled"] ELSE st.round]
          /\ appState' = IF ends THEN "results-shown" ELSE appState
    /\ UNCHANGED <<uploadedImage, reading, regens, uploads, albumVars, exportVars>>

\* handleRegenerateDecade up to its await; the cards that call it are
\* rendered in 'generating' and 'results-shown' for the entries of the map
handleRegenerateDecade(decade) ==
    /\ appState \in {"generating", "results-shown"}
    /\ HasKey(generatedImages, decade)
    /\ IF regenerateReturnsEarly(uploadedImage, generatedImages, decade)
       THEN UNCHANGED <<generatedImages, calls, regens>>
       ELSE /\ regens < MaxRegens
            /\ generatedImages' = SpreadPut(generatedImages, decade, PendingImage)
            /\ calls' = calls (+) SetToBag({RegenerateCall(decade)})
            /\ regens' = regens + 1
    /\ UNCHANGED <<uploadedImage, appState, reading, rounds, uploads, albumVars, exportVars>>

\* the call made by handleRegenerateDecade settles
regenerateSettled(call, outcome) ==
    /\ BagIn(call, calls)
    /\ call.by = "regenerate"
    /\ generatedImages' = regenerateResult(generatedImages, call, outcome)
    /\ calls' = calls (-) SetToBag({call})
    /\ UNCHANGED <<uploadedImage, appState, reading, rounds, regens, uploads, albumVars, exportVars>>

\* handleReset ("Change Photo" in 'image-uploaded', "Start Over" in
\* 'results-shown')
handleReset ==
    /\ appState \in {"image-uploaded", "results-shown"}
    /\ uploadedImage' = Null
    /\ generatedImages' = <<>>
    /\ appState' = "idle"
    /\ calls' = abandoned(calls)
    /\ UNCHANGED <<reading, rounds, regens, uploads, albumVars, exportVars>>

\* one step of the session, the remote service settling calls with one of outs
Step(outs) ==
    \/ handleFileChange
    \/ \E file \in Range(Files) : onloadend(file)
    \/ handleGenerateClick
    \/ \E call \in BagToSet(calls), outcome \in outs : processDecadeSettled(call, outcome)
    \/ \E decade \in Range(DECADES) : handleRegenerateDecade(decade)
    \/ \E call \in BagToSet(calls), outcome \in outs : regenerateSettled(call, outcome)
    \/ handleReset

Next == Step(Outcomes)

Spec == Init /\ [][Next]_vars

\* the session against a service that rejects every call
NextRejecting == Step({"rejectError"})

SpecRejecting == Init /\ [][NextRejecting]_vars

\* the sessions in which a file is dropped only when no FileReader is reading:
\* a part of the behaviours of Spec, used to refute a claim without the help
\* of two overlapping reads
NextOneReader == Next /\ Cardinality(reading') <= 1

SpecOneReader == Init /\ [][NextOneReader]_vars

\* ------------------------------------------- createAlbumPage: its steps
sessionVars == <<uploadedImage, generatedImages, appState, reading, rounds, calls,
                 regens, uploads>>

\* createAlbumPage(data) up to its first await, getContext('2d') giving context
createAlbumPage(data, context) ==
    /\ albumPc = "idle"
    /\ imageData' = data
    /\ IF contextMissing(context)
       THEN /\ albumPc' = "rejected"
            /\ albumResult' = Rejected(contextError)
            /\ UNCHANGED <<fontLoads, surface>>
       ELSE /\ surface' = drawBackground
            /\ fontLoads' = <<"150px Poppins">>
            /\ albumPc' = "fonts150"
            /\ UNCHANGED albumResult
    /\ UNCHANGED <<loads, sessionVars, exportVars>>

\* mutant of fonts150Settled: the title is drawn before the caption font is
\* waited for
fonts150SettledDrawsTitle(outcome) ==
    /\ albumPc = "fonts150"
    /\ IF outcome = "loaded"
       THEN /\ surface' = surface \o drawTitle
            /\ fontLoads' = Append(fontLoads, "80px Inter")
            /\ albumPc' = "fonts80"
            /\ UNCHANGED albumResult
       ELSE /\ albumPc' = "rejected"
            /\ albumResult' = Rejected(fontError)
            /\ UNCHANGED <<fontLoads, surface>>
    /\ UNCHANGED <<imageData, loads, sessionVars, exportVars>>

\* await document.fonts.load("150px Poppins") settles
fonts150Settled(outcome) ==
    /\ albumPc = "fonts150"
    /\ IF outcome = "loaded"
       THEN /\ fontLoads' = Append(fontLoads, "80px Inter")
            /\ albumPc' = "fonts80"
            /\ UNCHANGED albumResult
       ELSE /\ albumPc' = "rejected"
            /\ albumResult' = Rejected(fontError)
            /\ UNCHANGED fontLoads
    /\ UNCHANGED <<imageData, loads, surface, sessionVars, exportVars>>

\* await document.fonts.load("80px Inter") settles; on success the title is
\* drawn and loadImage is called for every value of imageData
fonts80Settled(outcome) ==
    /\ albumPc = "fonts80"
    /\ IF outcome = "loaded"
       THEN /\ surface' = surface \o drawTitle
            /\ loads' = [i \in 1..Len(imageData) |-> "loading"]
            /\ albumPc' = "loading"
            /\ UNCHANGED albumResult
       ELSE /\ albumPc' = "rejected"
            /\ albumResult' = Rejected(fontError)
            /\ UNCHANGED <<surface, loads>>
    /\ UNCHANGED <<imageData, fontLoads, sessionVars, exportVars>>

\* img.onload or img.onerror of the image of entry i fires.  The first
\* rejection rejects Promise.all and with it createAlbumPage; the other loads
\* go on and their results are dropped.
imageSettled(i, outcome) ==
    /\ i \in 1..Len(loads)
    /\ loads[i] = "loading"
    /\ loads' = [loads EXCEPT ![i] = outcome]
    /\ IF outcome = "failed" /\ albumPc = "loading"
       THEN /\ albumPc' = "rejected"
            /\ albumResult' = Rejected(loadImageError(imageData[i].value))
       ELSE UNCHANGED <<albumPc, albumResult>>
    /\ UNCHANGED <<imageData, fontLoads, surface, sessionVars, exportVars>>

\* Promise.all fulfilled: the cells are drawn and the page is encoded
imagesLoaded(rotation) ==
    /\ albumPc = "loading"
    /\ allLoaded(loads)
    /\ surface' = surface \o drawCells(imageData, 0, rotation)
    /\ albumResult' = Resolved(toDataURL(surface'))
    /\ albumPc' = "resolved"
    /\ UNCHANGED <<imageData, fontLoads, loads, sessionVars, exportVars>>

NextAlbum ==
    \/ \E data \in AlbumInputs, context \in Contexts : createAlbumPage(data, context)
    \/ \E outcome \in FontOutcomes : fonts150Settled(outcome)
    \/ \E outcome \in FontOutcomes : fonts80Settled(outcome)
    \/ \E i \in 1..NumDecades, outcome \in LoadOutcomes : imageSettled(i, outcome)
    \/ \E rotation \in [1..Len(imageData) -> Rotations] : imagesLoaded(rotation)

\* one createAlbumPage invocation on every input of AlbumInputs
SpecAlbum == Init /\ [][NextAlbum]_vars

\* the same, every font promise settling and a fulfilled Promise.all being
\* continued
SpecAlbumFair ==
    /\ SpecAlbum
    /\ WF_vars(\E outcome \in FontOutcomes : fonts150Settled(outcome))
    /\ WF_vars(\E outcome \in FontOutcomes : fonts80Settled(outcome))
    /\ WF_vars(\E rotation \in [1..Len(imageData) -> Rotations] : imagesLoaded(rotation))

\* -------------------------------------- the album export: its operators
\* Object.entries(generatedImages)
\*     .filter(([, image]) => image.status === 'done' && image.url)
\*     .reduce((acc, [decade, image]) => { acc[decade] = image.url; return acc; }, {})
\* mutant of imageDataOf: the filter keeps every entry that has settled
imageDataOfSettled(images) ==
    LET kept == SelectSeq(images, LAMBDA e : e.value.status # "pending")
    IN [i \in 1..Len(kept) |-> [key |-> kept[i].key, value |-> kept[i].value.url]]

imageDataOf(images) ==
    LET kept == SelectSeq(images, LAMBDA e : e.value.status = "done" /\ e.value.url # Undefined)
    IN [i \in 1..Len(kept) |-> [key |-> kept[i].key, value |-> kept[i].value.url]]

\* the ways the promises awaited by the two handlers settle
AlbumOutcomes == {"resolved", "rejected"}

ZipOutcomes == {"resolved", "rejected"}

ShareOutcomes == {"resolved", "rejected"}

\* what dataUrlToFile resolves with: a File, or null from its catch
FileOutcomes == {"file", Null}

\* the ways an invocation of a handler ends
DownloadPaths == {"no-images", "declined", "caught", "saved"}

SharePaths == {"no-images", "caught", "no-file", "not-supported", "shared"}

\* mutant of busyFinally: the flag is cleared as the last statement of the
\* try block, which a return or a throw leaves out
busyAtEndOfTry(path) == path \notin {"saved", "shared", "not-supported"}

\* finally { setIsDownloading(false) }, finally { setIsSharing(false) }: the
\* value of the flag once the invocation has ended by path
busyFinally(path) == FALSE

\* ---------------------------------------- the album export: its actions
\* handleDownloadAlbum up to its first await, window.confirm answering
\* proceed; the button is rendered in 'results-shown', disabled={isDownloading}
handleDownloadAlbum(proceed) ==
    /\ appState = "results-shown"
    /\ ~isDownloading
    /\ LET data           == imageDataOf(generatedImages)
           generatedCount == Len(data)
       IN IF generatedCount = 0
          THEN /\ ended' = [handler |-> "download", path |-> "no-images"]
               /\ isDownloading' = busyFinally("no-images")
               /\ UNCHANGED <<downloadPc, downloadData>>
          ELSE IF generatedCount < Len(DECADES) /\ ~proceed
          THEN /\ ended' = [handler |-> "download", path |-> "declined"]
               /\ isDownloading' = busyFinally("declined")
               /\ UNCHANGED <<downloadPc, downloadData>>
          ELSE /\ isDownloading' = TRUE
               /\ downloadPc' = "createAlbumPage"
               /\ downloadData' = data
               /\ UNCHANGED ended
    /\ UNCHANGED <<isSharing, sharePc, shareData, sessionVars, albumVars>>

\* await createAlbumPage(imageData) settles in handleDownloadAlbum: the zip
\* is filled and generateAsync awaited, or the catch and the finally run
downloadAlbumSettled(outcome) ==
    /\ downloadPc = "createAlbumPage"
    /\ downloadData' = <<>>
    /\ IF outcome = "resolved"
       THEN /\ downloadPc' = "generateAsync"
            /\ UNCHANGED <<isDownloading, ended>>
       ELSE /\ downloadPc' = "idle"
            /\ ended' = [handler |-> "download", path |-> "caught"]
            /\ isDownloading' = busyFinally("caught")
    /\ UNCHANGED <<isSharing, sharePc, shareData, sessionVars, albumVars>>

\* await zip.generateAsync(...) settles: the link is clicked, or the catch
\* runs; then the finally
generateAsyncSettled(outcome) ==
    /\ downloadPc = "generateAsync"
    /\ downloadPc' = "idle"
    /\ LET path == IF outcome = "resolved" THEN "saved" ELSE "caught"
       IN /\ ended' = [handler |-> "download", path |-> path]
          /\ isDownloading' = busyFinally(path)
    /\ UNCHANGED <<downloadData, isSharing, sharePc, shareData, sessionVars, albumVars>>

\* handleShareAlbum up to its first await; the button is rendered in
\* 'results-shown' where navigator.share exists, disabled={isSharing}
handleShareAlbum ==
    /\ appState = "results-shown"
    /\ ~isSharing
    /\ LET data == imageDataOf(generatedImages)
       IN IF Len(data) = 0
          THEN /\ ended' = [handler |-> "share", path |-> "no-images"]
               /\ isSharing' = busyFinally("no-images")
               /\ UNCHANGED <<sharePc, shareData>>
          ELSE /\ isSharing' = TRUE
               /\ sharePc' = "createAlbumPage"
               /\ shareData' = data
               /\ UNCHANGED ended
    /\ UNCHANGED <<isDownloading, downloadPc, downloadData, sessionVars, albumVars>>

\* await createAlbumPage(imageData) settles in handleShareAlbum
shareAlbumSettled(outcome) ==
    /\ sharePc = "createAlbumPage"
    /\ shareData' = <<>>
    /\ IF outcome = "resolved"
       THEN /\ sharePc' = "dataUrlToFile"
            /\ UNCHANGED <<isSharing, ended>>
       ELSE /\ sharePc' = "idle"
            /\ ended' = [handler |-> "share", path |-> "caught"]
            /\ isSharing' = busyFinally("caught")
    /\ UNCHANGED <<isDownloading, downloadPc, downloadData, sessionVars, albumVars>>

\* await dataUrlToFile(...) resolves with file; navigator.canShare is missing
\* or answers canShare
dataUrlToFileSettled(file, canShare) ==
    /\ sharePc = "dataUrlToFile"
    /\ IF file = Null
       THEN /\ sharePc' = "idle"
            /\ ended' = [handler |-> "share", path |-> "no-file"]
            /\ isSharing' = busyFinally("no-file")
       ELSE IF canShare
       THEN /\ sharePc' = "share"
            /\ UNCHANGED <<isSharing, ended>>
       ELSE /\ sharePc' = "idle"
            /\ ended' = [handler |-> "share", path |-> "not-supported"]
            /\ isSharing' = busyFinally("not-supported")
    /\ UNCHANGED <<shareData, isDownloading, downloadPc, downloadData, sessionVars, albumVars>>

\* await navigator.share(...) settles: it rejects when the user dismisses the
\* share sheet
shareSettled(outcome) ==
    /\ sharePc = "share"
    /\ sharePc' = "idle"
    /\ LET path == IF outcome = "resolved" THEN "shared" ELSE "caught"
       IN /\ ended' = [handler |-> "share", path |-> path]
          /\ isSharing' = busyFinally(path)
    /\ UNCHANGED <<shareData, isDownloading, downloadPc, downloadData, sessionVars, albumVars>>

\* Promise.all(workers) fulfilled in the first round of the session
fulfilledRound ==
    [queue     |-> <<>>,
     pc        |-> [w \in workerIds |-> "finished"],
     outcome   |-> "fulfilled",
     issued    |-> [d \in Labels |-> IF d \in Range(DECADES) THEN 1 ELSE 0],
     published |-> Range(DECADES)]

\* the results of a round whose calls have settled, each in one of Outcomes
RoundResults ==
    {[i \in 1..Len(DECADES) |->
         [key   |-> DECADES[i],
          value |-> IF o[i] = "resolve"
                    THEN DoneImage(resultUrl(WorkerCall(1, 1, DECADES[i])))
                    ELSE ErrorImage(errorMessage(o[i]))]] :
       o \in [1..Len(DECADES) -> Outcomes]}

\* the session when the export buttons are first rendered: the first photo
\* uploaded, its round fulfilled, nothing regenerated
resultsShown ==
    /\ uploadedImage = Files[1]
    /\ generatedImages \in RoundResults
    /\ appState = "results-shown"
    /\ reading = {}
    /\ rounds = <<fulfilledRound>>
    /\ calls = EmptyBag
    /\ regens = 0
    /\ uploads = 1

InitExport == resultsShown /\ albumNotCalled /\ exportNotRunning

\* what happens while the export buttons are rendered and while an export
\* runs: the two handlers and their continuations, "Try again" on a card and
\* its call settling, "Start Over"
NextExport ==
    \/ \E proceed \in BOOLEAN : handleDownloadAlbum(proceed)
    \/ \E outcome \in AlbumOutcomes : downloadAlbumSettled(outcome)
    \/ \E outcome \in ZipOutcomes : generateAsyncSettled(outcome)
    \/ handleShareAlbum
    \/ \E outcome \in AlbumOutcomes : shareAlbumSettled(outcome)
    \/ \E file \in FileOutcomes, canShare \in BOOLEAN : dataUrlToFileSettled(file, canShare)
    \/ \E outcome \in ShareOutcomes : shareSettled(outcome)
    \/ \E decade \in Range(DECADES) : handleRegenerateDecade(decade)
    \/ \E call \in BagToSet(calls), outcome \in Outcomes : regenerateSettled(call, outcome)
    \/ handleReset

SpecExport == InitExport /\ [][NextExport]_vars

\* ------------------------------------------------------- claim vocabulary
RoundIds == 1..Len(rounds)

\* the unsettled calls that satisfy P, counted with their multiplicity
Unsettled(cs, P(_)) ==
    BagCardinality([c \in {x \in BagToSet(cs) : P(x)} |-> cs[c]])

UnsettledOfRound(cs, r) == Unsettled(cs, LAMBDA c : c.by = "worker" /\ c.round = r)

UnsettledOfWorker(cs, r, w) ==
    Unsettled(cs, LAMBDA c : c.by = "worker" /\ c.round = r /\ c.worker = w)

UnsettledFor(cs, decade) == Unsettled(cs, LAMBDA c : c.decade = decade)

\* ------------------------------------------------------------------ C1
\* C1: in every round, at every moment, each label of DECADES that has left
\* the queue has been passed to generate exactly once by the round's workers
\* and each label still queued not yet; no other label is ever generated; so
\* a finished round has invoked generate exactly NumDecades times, once per
\* label.
C1_EachLabelOnce ==
    \A r \in RoundIds :
        /\ \A d \in Range(DECADES) :
              rounds[r].issued[d] = (IF d \in Range(rounds[r].queue) THEN 0 ELSE 1)
        /\ \A d \in Labels \ Range(DECADES) : rounds[r].issued[d] = 0
        /\ rounds[r].outcome = "fulfilled" =>
              \A d \in Range(DECADES) : rounds[r].issued[d] = 1

C1_Witness ==
    \E r \in RoundIds :
        /\ rounds[r].outcome = "fulfilled"
        /\ \A d \in Range(DECADES) : rounds[r].issued[d] = 1

\* ------------------------------------------------------------------ C2
\* C2: the unsettled generate calls issued by the workers of one round never
\* number more than concurrencyLimit (2), and one worker never has more than
\* one unsettled call.
C2_RoundWithinLimit ==
    \A r \in RoundIds :
        /\ UnsettledOfRound(calls, r) <= 2
        /\ \A w \in workerIds : UnsettledOfWorker(calls, r, w) <= 1

C2_Witness ==
    \E r \in RoundIds :
        /\ UnsettledOfRound(calls, r) = 2
        /\ Len(rounds[r].queue) > 0

\* ------------------------------------------------------------------ C3
\* C3 (as claimed): counting the calls of the rounds' workers and the calls of
\* handleRegenerateDecade together, never more than 2 calls are unsettled.
C3_AtMostTwoUnsettled == BagCardinality(calls) <= 2

\* ------------------------------------------------------------------ C4
\* C4: a round resolves only after its queue is empty, none of its calls is
\* unsettled and a done or error update has been published for every label;
\* and appState becomes 'results-shown' only in the step in which a round
\* resolves.
C4_Resolved(r) ==
    /\ rounds[r].queue = <<>>
    /\ UnsettledOfRound(calls, r) = 0
    /\ rounds[r].published = Range(DECADES)

C4_ResolvesAfterAllPublished ==
    /\ [](\A r \in RoundIds : rounds[r].outcome = "fulfilled" => C4_Resolved(r))
    /\ [][(appState' = "results-shown" /\ appState # "results-shown") =>
             \E r \in RoundIds :
                 /\ rounds[r].outcome = "running"
                 /\ rounds'[r].outcome = "fulfilled"]_vars

C4_Witness ==
    /\ appState = "results-shown"
    /\ \E r \in RoundIds : rounds[r].outcome = "fulfilled" /\ C4_Resolved(r)

\* ------------------------------------------------------------------ C5
\* the step in which round r finishes
C5_Finishes(r) == rounds[r].outcome = "running" /\ rounds'[r].outcome # "running"

\* C5 (as claimed): against a service that rejects every call, when a round
\* finishes every label is Error with a message, none is Done or Pending, and
\* the round has completed normally.
C5_AllErrorAtFinish ==
    [][\A r \in RoundIds :
          C5_Finishes(r) =>
             /\ rounds'[r].outcome = "fulfilled"
             /\ \A d \in Range(DECADES) :
                   /\ StatusOf(generatedImages', d) = "error"
                   /\ Lookup(generatedImages', d).error # Undefined]_vars

\* C5 (amended): against a service that rejects every call, no round is ever
\* rejected and no entry is ever Done; when a round finishes, every entry of
\* the result map is Error with the message, except that an entry regenerated
\* or set again by a later round meanwhile is Pending, with a call for its
\* label unsettled or the label still queued in a round; a label whose entry
\* a new upload cleared meanwhile has no entry.
C5_NoDoneAtFinish ==
    /\ [](\A r \in RoundIds : rounds[r].outcome # "rejected")
    /\ [](\A d \in Labels : StatusOf(generatedImages, d) # "done")
    /\ [][\A r \in RoundIds :
             C5_Finishes(r) =>
                /\ rounds'[r].outcome = "fulfilled"
                /\ \A d \in Range(DECADES) :
                      \/ /\ StatusOf(generatedImages', d) = "error"
                         /\ Lookup(generatedImages', d).error = errorMessage("rejectError")
                      \/ /\ StatusOf(generatedImages', d) = "pending"
                         /\ \/ UnsettledFor(calls', d) > 0
                            \/ \E q \in DOMAIN rounds' : d \in Range(rounds'[q].queue)
                      \/ ~HasKey(generatedImages', d)]_vars

C5_Witness ==
    /\ \E r \in RoundIds : rounds[r].outcome = "fulfilled"
    /\ \A d \in Range(DECADES) : StatusOf(generatedImages, d) = "error"

\* ------------------------------------------------------------------ C6
\* C6: when a call of worker w of round r is rejected, the step records Error
\* for its label, leaves the round running and every other worker as it was,
\* and, if the queue is not empty, has the same worker draw the head of the
\* queue and call generate for it; the worker finishes only on an empty queue.
\* So while labels are queued every worker of the round is awaiting a call.
C6_WorkerGoesOnAfterRejection ==
 /\ [](\A r \in RoundIds :
          rounds[r].queue # <<>> =>
             \A w \in workerIds :
                 rounds[r].pc[w] = "await" /\ UnsettledOfWorker(calls, r, w) = 1)
 /\ [][\A c \in BagToSet(calls) :
          processDecadeSettled(c, "rejectError") =>
             LET r == c.round
                 w == c.worker
                 q == rounds[r].queue
             IN /\ StatusOf(generatedImages', c.decade) = "error"
                /\ rounds'[r].outcome # "rejected"
                /\ \A v \in workerIds \ {w} : rounds'[r].pc[v] = rounds[r].pc[v]
                /\ IF q # <<>>
                   THEN /\ rounds'[r].queue = Tail(q)
                        /\ rounds'[r].pc[w] = "await"
                        /\ UnsettledOfWorker(calls', r, w) = 1
                        /\ \E n \in BagToSet(calls') :
                              /\ n.by = "worker" /\ n.round = r /\ n.worker = w
                              /\ n.decade = Head(q)
                   ELSE rounds'[r].pc[w] = "finished"]_vars

\* the last label is being generated in the first round after an earlier
\* label of that round failed (no regeneration, no second round involved)
C6_Witness ==
    /\ regens = 0
    /\ Len(rounds) = 1
    /\ \E d \in Range(DECADES) : StatusOf(generatedImages, d) = "error"
    /\ \E c \in BagToSet(calls) : c.by = "worker" /\ c.decade = DECADES[NumDecades]

\* ------------------------------------------------------------------ C7
\* C7: a handleRegenerateDecade invocation for a label whose state is Pending
\* issues no generate call and leaves the result map as it is.
C7_PendingRegenerateIsNoOp ==
    [][\A d \in Range(DECADES) :
          (StatusOf(generatedImages, d) = "pending" /\ handleRegenerateDecade(d)) =>
             UNCHANGED <<generatedImages, calls, regens>>]_vars

\* a label is Pending on a rendered card while regenerations are still
\* possible: the invocation the claim is about can happen here
C7_Witness ==
    /\ appState \in {"generating", "results-shown"}
    /\ uploadedImage # Null
    /\ regens < MaxRegens
    /\ \E d \in Range(DECADES) :
          /\ StatusOf(generatedImages, d) = "pending"
          /\ UnsettledFor(calls, d) = 1

\* ------------------------------------------------------------------ C8
\* C8 (as claimed): no two generate calls for the same label are unsettled at
\* the same time.
C8_OneCallPerLabel == \A d \in Labels : UnsettledFor(calls, d) <= 1

\* ------------------------------------------------------------------ C9
\* C9 (as claimed): a call started before a session clear (handleReset or a
\* new upload) that settles after it changes neither generatedImages nor
\* appState.
C9_LateResultIgnored ==
    [][\A c \in BagToSet(calls), o \in Outcomes :
          (c.stale /\ (processDecadeSettled(c, o) \/ regenerateSettled(c, o))) =>
             UNCHANGED <<generatedImages, appState>>]_vars

\* ------------------------------------------------------------------ C10
\* some round is running before and after the step
C10_DuringRound ==
    \E r \in RoundIds : rounds[r].outcome = "running" /\ rounds'[r].outcome = "running"

\* C10 (as claimed): the step that starts a round replaces the result map by
\* one Pending entry per label of DECADES, the calls it issues being for
\* labels that are Pending in that map; while a round runs no entry is
\* removed and no label outside DECADES is added.
C10_ReplacedThenAppendOnly ==
    /\ [][Len(rounds') > Len(rounds) =>
             /\ Keys(generatedImages') = DECADES
             /\ \A d \in Range(DECADES) : Lookup(generatedImages', d) = PendingImage
             /\ \A c \in BagToSet(calls') :
                   c.round = Len(rounds') => StatusOf(generatedImages', c.decade) = "pending"]_vars
    /\ [][C10_DuringRound =>
             /\ Range(Keys(generatedImages)) \subseteq Range(Keys(generatedImages'))
             /\ Range(Keys(generatedImages')) \subseteq Range(DECADES)]_vars

\* ------------------------------------------------ createAlbumPage claims
\* the calls on the context that belong to a cell, and the images drawn
CellOps(s) ==
    SelectSeq(s, LAMBDA o : \/ o.op \in {"save", "translate", "rotate", "drawImage", "restore"}
                            \/ o.op = "fillRect" /\ o.args[1] # "#F8FAFC"
                            \/ o.op = "fillText" /\ o.args[1] # "Past Forward")

OpsNamed(s, name) == SelectSeq(s, LAMBDA o : o.op = name)

FailedLoads == {i \in 1..Len(loads) : loads[i] = "failed"}

\* ------------------------------------------------------------------ C11
\* C11: once the load of any image source has failed, createAlbumPage is
\* rejected: it has returned no encoded image, nothing of a cell is on the
\* surface (whatever other sources loaded), and the rejection's message is
\* "Failed to load image: ", then the first 50 characters of a source whose
\* load failed (the whole source if it is shorter), then "...".
C11_LoadFailureRejectsAll ==
    FailedLoads # {} =>
        /\ albumPc = "rejected"
        /\ albumResult.status = "rejected"
        /\ CellOps(surface) = <<>>
        /\ LET m     == albumResult.value
               named == SubSeq(m, 2, Len(m) - 1)
           IN /\ Len(m) >= 2
              /\ m[1] = "Failed to load image: "
              /\ m[Len(m)] = "..."
              /\ \E i \in FailedLoads :
                    LET src == imageData[i].value IN
                    /\ Len(named) = (IF Len(src) < 50 THEN Len(src) ELSE 50)
                    /\ \A k \in 1..Len(named) : named[k] = src[k]

\* a source of more than 50 characters failed while another source loaded
C11_Witness ==
    /\ albumPc = "rejected"
    /\ \E i \in FailedLoads : Len(imageData[i].value) > 50
    /\ \E j \in 1..Len(loads) : loads[j] = "loaded"

\* ------------------------------------------------------------------ C12
\* C12: when all K >= 1 image sources have loaded, createAlbumPage is not
\* rejected and goes on to resolve; when it has resolved, it has returned one
\* jpeg encoding of the surface, and the surface holds exactly K cells, the
\* cell of the entry at position i (from 0) of the key order being the i-th
\* drawn, showing that entry's image and label, centred on the grid cell at
\* row = i div 2 and col = i mod 2.
C12_Cells ==
    LET K       == Len(imageData)
        images  == OpsNamed(surface, "drawImage")
        origins == OpsNamed(surface, "translate")
        texts   == OpsNamed(surface, "fillText")
    IN /\ albumResult = Resolved(toDataURL(surface))
       /\ albumResult.value.type = "image/jpeg"
       /\ Len(images) = K
       /\ Len(origins) = K
       /\ Len(texts) = K + 1
       /\ Len(CellOps(surface)) = 7 * K
       /\ \A i \in 0..(K - 1) :
             /\ images[i + 1].args[1] = Img(imageData[i + 1].value)
             /\ texts[i + 2].args[1] = imageData[i + 1].key
             /\ \E row \in 0..K, col \in {0, 1} :
                   /\ i = 2 * row + col
                   /\ origins[i + 1].args =
                         <<cellX(col) + cellWidth \div 2, cellY(row) + cellHeight \div 2>>

C12_OneImageKCells ==
    /\ []((Len(loads) >= 1 /\ \A i \in 1..Len(loads) : loads[i] = "loaded") =>
             albumPc \in {"loading", "resolved"})
    /\ [](albumPc = "resolved" => C12_Cells)
    /\ (Len(loads) >= 1 /\ \A i \in 1..Len(loads) : loads[i] = "loaded")
          ~> (albumPc = "resolved")

\* a page of three cells: the third is in the second row
C12_Witness ==
    /\ albumPc = "resolved"
    /\ Len(imageData) = 3
    /\ Len(OpsNamed(surface, "drawImage")) = 3

\* ------------------------------------------------------------------ C13
\* C13: a createAlbumPage call that gets no 2D context is rejected in its
\* first step with the error "Could not get 2D canvas context", having waited
\* for no font, started no image load and drawn nothing; and nothing of that
\* happens afterwards.
C13_NoContextFailsAtOnce ==
    /\ [][\A data \in AlbumInputs :
             createAlbumPage(data, Null) =>
                /\ albumPc' = "rejected"
                /\ albumResult' = Rejected(contextError)
                /\ fontLoads' = <<>>
                /\ loads' = <<>>
                /\ surface' = <<>>]_vars
    /\ [](albumResult = Rejected(contextError) =>
             /\ albumPc = "rejected"
             /\ fontLoads = <<>>
             /\ loads = <<>>
             /\ surface = <<>>)

\* the call was made with sources to load and found no context
C13_Witness ==
    /\ albumResult = Rejected(contextError)
    /\ Len(imageData) >= 1

\* ------------------------------------------------------------------ C14
\* C14: createAlbumPage called with an empty mapping never draws anything of
\* a cell, always settles, and when it resolves the page holds the background
\* and the title only.
C14_EmptyMapping ==
    /\ [](imageData = <<>> => CellOps(surface) = <<>>)
    /\ []((albumPc = "resolved" /\ imageData = <<>>) =>
             /\ surface = drawBackground \o drawTitle
             /\ albumResult = Resolved(toDataURL(drawBackground \o drawTitle)))
    /\ (albumPc # "idle" /\ imageData = <<>>) ~> (albumPc \in {"resolved", "rejected"})

C14_Witness ==
    /\ albumPc = "resolved"
    /\ imageData = <<>>
    /\ albumResult.status = "resolved"

\* ------------------------------------------------------------------ C15
\* the session, every generateDecadeImage call issued being settled at some
\* time by the service
SpecFair ==
    /\ Spec
    /\ WF_vars(\E call \in BagToSet(calls), outcome \in Outcomes :
                  processDecadeSettled(call, outcome))
    /\ WF_vars(\E call \in BagToSet(calls), outcome \in Outcomes :
                  regenerateSettled(call, outcome))

\* the r-th round has been started; it is running
C15_Started(r) == Len(rounds) >= r

C15_Running(r) == C15_Started(r) /\ rounds[r].outcome = "running"

\* C15: if every issued call is settled at some time, a running round is
\* fulfilled at some time: its queue is empty, every label has left Pending
\* by a Done or Error update of the round, and appState is 'results-shown'.
C15_RoundCompletes ==
    \A r \in 1..Len(Files) :
        C15_Running(r) ~>
           (/\ C15_Started(r)
            /\ rounds[r].outcome = "fulfilled"
            /\ rounds[r].queue = <<>>
            /\ rounds[r].published = Range(DECADES)
            /\ appState = "results-shown")

\* the second round of the session is complete and shown
C15_Witness ==
    /\ Len(rounds) = 2
    /\ rounds[2].outcome = "fulfilled"
    /\ appState = "results-shown"
    /\ \A d \in Range(DECADES) : StatusOf(generatedImages, d) \in {"done", "error"}

\* ------------------------------------------------------------------ C16
\* C16 (as claimed, the part about Done and Error): no step takes a label's
\* entry from Done or Error directly to another Done or Error entry; it is
\* Pending in between.
C16_NoDirectChange ==
    [][\A d \in Labels :
          (/\ StatusOf(generatedImages, d) \in {"done", "error"}
           /\ StatusOf(generatedImages', d) \in {"done", "error"})
             => Lookup(generatedImages', d) = Lookup(generatedImages, d)]_vars

\* ------------------------------------------------------------------ C17
\* the entries of the labels other than d
C17_Others(images, d) == SelectSeq(images, LAMBDA entry : entry.key # d)

\* the entries other than d's are the same before and after the step, and in
\* the same order
C17_OthersKept(d) == C17_Others(generatedImages', d) = C17_Others(generatedImages, d)

\* the calls of which the step leaves fewer unsettled: a call that settles in
\* the step is one of them
C17_Leaving == {c \in BagToSet(calls) : CopiesIn(c, calls') < CopiesIn(c, calls)}

C18_FifoDraw ==
    /\ [](\A r \in RoundIds :
             \E k \in 0..Len(DECADES) :
                 /\ rounds[r].queue = SubSeq(DECADES, k + 1, Len(DECADES))
                 /\ \A i \in 1..Len(DECADES) :
                       rounds[r].issued[DECADES[i]] = (IF i <= k THEN 1 ELSE 0))
    /\ [][Len(rounds') > Len(rounds) =>
             \A w \in 1..2 :
                 BagIn(WorkerCall(Len(rounds'), w, DECADES[w]), calls')]_vars

\* the second worker handles the third label while the first worker is still
\* at the first
C18_Witness ==
    \E r \in RoundIds :
        /\ BagIn(WorkerCall(r, 1, DECADES[1]), calls)
        /\ BagIn(WorkerCall(r, 2, DECADES[3]), calls)

C20_RegenerateFlow ==
    /\ [][\A d \in Range(DECADES) :
             (/\ StatusOf(generatedImages, d) \in {"done", "error"}
              /\ uploadedImage # Null
              /\ handleRegenerateDecade(d)) =>
                /\ Lookup(generatedImages', d) = PendingImage
                /\ calls' = calls (+) SetToBag({RegenerateCall(d)})
                /\ BagCardinality(calls') = BagCardinality(calls) + 1]_vars
    /\ [][\A c \in BagToSet(calls) :
             /\ regenerateSettled(c, "resolve") =>
                   /\ Lookup(generatedImages', c.decade) = DoneImage(<<"url", c.decade, "regenerate">>)
                   /\ BagCardinality(calls') = BagCardinality(calls) - 1
             /\ regenerateSettled(c, "rejectError") =>
                   /\ Lookup(generatedImages', c.decade) = ErrorImage("err.message")
                   /\ BagCardinality(calls') = BagCardinality(calls) - 1]_vars

\* the first card of the shown results carries the image a regeneration
\* returned, and no call is unsettled
C20_Witness ==
    /\ regens >= 1
    /\ appState = "results-shown"
    /\ BagCardinality(calls) = 0
    /\ StatusOf(generatedImages, DECADES[1]) = "done"
    /\ Lookup(generatedImages, DECADES[1]).url = <<"url", DECADES[1], "regenerate">>

\* ------------------------------------------------------------------ C21
\* every entry of imageData has a load, and it has completed
C21_EveryLoadCompleted ==
    \A i \in 1..Len(imageData) : i <= Len(loads) /\ loads[i] = "loaded"

\* C21 (as claimed): nothing is on the surface, not the background, not the
\* title and no cell, unless the load of every image source has completed.
C21_NoDrawingBeforeLoads == surface # <<>> => C21_EveryLoadCompleted

\* C21 (amended): nothing of a cell is on the surface unless the load of every
\* image source has completed, and the step that draws the cells starts from
\* such a state; the background is on the surface from the first step on and
\* the title from the end of the font waits on, before any load has started
\* or completed.
C21_NoCellBeforeLoads ==
    /\ [](CellOps(surface) # <<>> => C21_EveryLoadCompleted)
    /\ [][CellOps(surface') # CellOps(surface) => C21_EveryLoadCompleted]_vars
    /\ [](albumPc \in {"fonts150", "fonts80"} => surface = drawBackground /\ loads = <<>>)
    /\ [](albumPc = "loading" => surface = drawBackground \o drawTitle)

\* two cells are drawn, the loads of both sources completed
C21_Witness ==
    /\ Len(imageData) = 2
    /\ Len(OpsNamed(surface, "drawImage")) = 2
    /\ C21_EveryLoadCompleted

\* ------------------------------------------------------------------ C22
\* C22: text is on the surface only when document.fonts.load has been called
\* for the title font and then for the caption font and the function has gone
\* on past both waits; the step that draws text is the continuation of the
\* second wait (the title) or a later one (the captions).
C22_TextAfterFonts ==
    /\ [](OpsNamed(surface, "fillText") # <<>> =>
             /\ fontLoads = <<"150px Poppins", "80px Inter">>
             /\ albumPc \in {"loading", "resolved", "rejected"})
    /\ [][Len(OpsNamed(surface', "fillText")) > Len(OpsNamed(surface, "fillText")) =>
             /\ fontLoads = <<"150px Poppins", "80px Inter">>
             /\ albumPc \in {"fonts80", "loading"}
             /\ albumPc' \in {"loading", "resolved"}]_vars

\* the title and a caption are drawn
C22_Witness ==
    /\ albumPc = "resolved"
    /\ Len(OpsNamed(surface, "fillText")) >= 2

\* ------------------------------------------------------------------ C23
\* the frames drawn, in order
C23_Frames(s) ==
    SelectSeq(s, LAMBDA o : o.op = "fillRect" /\ o.args[1] = "#FFFFFF")

\* the captions drawn, in order
C23_Captions(s) ==
    SelectSeq(s, LAMBDA o : o.op = "fillText" /\ o.args[1] # "Past Forward")

\* C23 (as claimed): in every cell drawn, the y coordinate of the caption is
\* not above the bottom edge of the image and not below the bottom edge of the
\* frame (the three are in the coordinates of the cell).
C23_CaptionBelowImage ==
    LET images   == OpsNamed(surface, "drawImage")
        frames   == C23_Frames(surface)
        captions == C23_Captions(surface)
    IN \A i \in 1..Len(captions) :
          /\ i <= Len(images)
          /\ i <= Len(frames)
          /\ images[i].args[3] + images[i].args[5] <= captions[i].args[3]
          /\ captions[i].args[3] <= frames[i].args[3] + frames[i].args[5]

\* ------------------------------------------------------------------ C24
\* The transform of a 2D context: its translation, its rotation and the stack
\* of saved states.  The code translates only while the rotation is 0, where
\* translate adds to the translation.
Untransformed == [at |-> <<0, 0>>, angle |-> 0, saved |-> <<>>]

applyOp(st, o) ==
    CASE o.op = "save"      -> [st EXCEPT !.saved = Append(@, [at |-> st.at, angle |-> st.angle])]
      [] o.op = "restore"   -> IF st.saved = <<>> THEN st
                               ELSE [at    |-> st.saved[Len(st.saved)].at,
                                     angle |-> st.saved[Len(st.saved)].angle,
                                     saved |-> SubSeq(st.saved, 1, Len(st.saved) - 1)]
      [] o.op = "translate" -> [st EXCEPT !.at = <<@[1] + o.args[1], @[2] + o.args[2]>>]
      [] o.op = "rotate"    -> [st EXCEPT !.angle = @ + o.args[1]]
      [] OTHER              -> st

RECURSIVE Replay(_, _)
Replay(ops, st) ==
    IF ops = <<>> THEN st ELSE Replay(Tail(ops), applyOp(st, Head(ops)))

\* C24: whatever the number of cells, the context is un-transformed, with no
\* saved state left, before the save that begins each cell and after all that
\* was drawn; and a page that is complete has as many restores as saves, one
\* pair per cell.
C24_NoTransformLeak ==
    /\ \A n \in 0..Len(surface) :
          (n = Len(surface) \/ surface[n + 1].op = "save") =>
             Replay(SubSeq(surface, 1, n), Untransformed) = Untransformed
    /\ albumPc = "resolved" =>
          /\ Len(OpsNamed(surface, "save")) = Len(imageData)
          /\ Len(OpsNamed(surface, "restore")) = Len(imageData)

\* three cells are drawn, each translated and rotated
C24_Witness ==
    /\ albumPc = "resolved"
    /\ Len(OpsNamed(surface, "rotate")) = 3
    /\ \A i \in 1..3 : OpsNamed(surface, "rotate")[i].args[1] # 0

\* ------------------------------------------------------------------ C27
\* C27 (as claimed): the frame of every cell drawn, not rotated, lies inside
\* the rectangle of its own grid cell (row = i div 2, col = i mod 2 for the
\* cell of index i).
C27_FrameInsideCell ==
    LET origins == OpsNamed(surface, "translate")
        frames  == C23_Frames(surface)
    IN \A i \in 0..(Len(frames) - 1) :
          LET left == origins[i + 1].args[1] + frames[i + 1].args[2]
              top  == origins[i + 1].args[2] + frames[i + 1].args[3]
              row  == i \div 2
              col  == i % 2
          IN /\ cellX(col) <= left
             /\ left + frames[i + 1].args[4] <= cellX(col) + cellWidth
             /\ cellY(row) <= top
             /\ top + frames[i + 1].args[5] <= cellY(row) + cellHeight

\* ------------------------------------------------------------------ C26
\* the label waits in the queue of the current round, which is running
C26_Queued(d) ==
    /\ rounds # <<>>
    /\ rounds[Len(rounds)].outcome = "running"
    /\ d \in Range(rounds[Len(rounds)].queue)

C26_Pending(d) == StatusOf(generatedImages, d) = "pending"

\* C26: whenever a label is Pending, a generate call for that label is in
\* flight or the label waits in the queue of the current round; and if every
\* issued call is settled at some time, a label that is Pending leaves Pending
\* at some time.
C26_PendingIsServed ==
    /\ [](\A d \in Range(DECADES) :
             C26_Pending(d) => UnsettledFor(calls, d) >= 1 \/ C26_Queued(d))
    /\ \A d \in Range(DECADES) : C26_Pending(d) ~> ~C26_Pending(d)

\* in the second round of the session one Pending label has its call in
\* flight and another waits in the queue with no call
C26_Witness ==
    /\ Len(rounds) = 2
    /\ \E d, e \in Range(DECADES) :
          /\ C26_Pending(d) /\ UnsettledFor(calls, d) = 0 /\ C26_Queued(d)
          /\ C26_Pending(e) /\ UnsettledFor(calls, e) >= 1

\* ------------------------------------------------------------------ C25
\* the place of the entry of label d in the map
C25_Place(images, d) == CHOOSE i \in 1..Len(images) : images[i].key = d

\* data holds the labels that are Done in images, each once and with the url
\* of its entry, in the order in which images holds them, and is not empty
C25_DoneOnly(data, images) ==
    /\ Len(data) >= 1
    /\ \A d \in Labels :
          (\E i \in 1..Len(data) : data[i].key = d) <=> StatusOf(images, d) = "done"
    /\ \A i \in 1..Len(data) :
          /\ StatusOf(images, data[i].key) = "done"
          /\ data[i].value = Lookup(images, data[i].key).url
          /\ data[i].value # Undefined
    /\ \A i, j \in 1..Len(data) :
          i < j => C25_Place(images, data[i].key) < C25_Place(images, data[j].key)

\* C25: a step in which handleDownloadAlbum or handleShareAlbum calls
\* createAlbumPage passes the mapping of exactly the labels that are Done in
\* the result map at that moment, with their urls, in the map's key order, so
\* no Pending and no Error label and at least one entry; and while either
\* awaits createAlbumPage the mapping it passed is not empty.
C25_MappingIsDoneEntries ==
    /\ [][/\ (downloadPc = "idle" /\ downloadPc' = "createAlbumPage")
                => C25_DoneOnly(downloadData', generatedImages)
          /\ (sharePc = "idle" /\ sharePc' = "createAlbumPage")
                => C25_DoneOnly(shareData', generatedImages)]_vars
    /\ [](downloadPc = "createAlbumPage" => downloadData # <<>>)
    /\ [](sharePc = "createAlbumPage" => shareData # <<>>)

\* both handlers await createAlbumPage: the download was started with two
\* labels Done and the share after one of them had left Done, the third label
\* being Error or Pending at both calls
C25_Witness ==
    /\ downloadPc = "createAlbumPage"
    /\ sharePc = "createAlbumPage"
    /\ Len(generatedImages) = 3
    /\ Len(downloadData) = 2
    /\ Len(shareData) = 1

\* ------------------------------------------------------------------ C28
\* C28: isDownloading is true exactly while a handleDownloadAlbum invocation
\* is running, between its start and its end, by whichever path it ends, and
\* isSharing exactly while a handleShareAlbum invocation is running.
C28_BusyFlagsReleased ==
    /\ isDownloading <=> downloadPc # "idle"
    /\ isSharing <=> sharePc # "idle"
    /\ ended.handler = "download" => ended.path \in DownloadPaths
    /\ ended.handler = "share" => ended.path \in SharePaths

\* a download has ended in the catch and its flag is released, while a share
\* runs and holds its flag
C28_Witness ==
    /\ ended = [handler |-> "download", path |-> "caught"]
    /\ downloadPc = "idle"
    /\ ~isDownloading
    /\ sharePc = "share"
    /\ isSharing

====
